---- MODULE Spec2Model ----
(***************************************************************************)
(* Chunk streaming of the voxel world: the chunk registry (VoxelChunkMap), *)
(* the load / unload / render queues and the five chained Update systems   *)
(* of VoxelChunkLoadingPlugin, together with the deferred entity commands  *)
(* they issue.                                                             *)
(*                                                                         *)
(* Conventions of the model                                                *)
(*  - a chunk coordinate (VoxelChunkPosition / IVec3) is a triple          *)
(*    <<x, y, z>> of integers; a translation (Vec3) is a triple of         *)
(*    integer-valued world coordinates;                                    *)
(*  - an Entity is an opaque id: the program stores and compares ids and   *)
(*    never looks inside one.  commands.spawn() hands out an id that no    *)
(*    live entity and no stored handle carries.  The model names the id    *)
(*    spawned for a coordinate c <<c, n>>, n the least number that makes   *)
(*    the id unused, so that equal situations get equal names;             *)
(*  - Commands are deferred: the systems are chained without a sync point  *)
(*    between them, so the commands they queue are applied when the        *)
(*    Update schedule ends (ApplyDeferred).                                *)
(***************************************************************************)
EXTENDS Integers, Sequences, FiniteSets, TLC

\* Default value for VoxelChunkWidth.
DEFAULT_CHUNK_WIDTH == 16

\* Bounds of the model.
MaxObservers == 2   \* entities carrying (Transform, RenderDistance)
MaxR == 2           \* largest RenderDistance.val
MaxM == 1           \* largest RenderDistance.unload_margin
MaxPos == 1         \* observers stand in the chunks -MaxPos..MaxPos of the x axis
MaxEdits == 1       \* edits made through the resource inspector
MaxBacklog == 1     \* a tick starts with at most this many unload items left over
MaxKeys == 2        \* insert_chunk is tried on the coordinates <<0..MaxKeys, 0, 0>>
MaxWidth == 16      \* largest VoxelChunkWidth of the index conversions
MaxCoord == 2       \* the coordinate conversions take components in -MaxCoord..MaxCoord and 2^24 - 1..2^24 + MaxCoord
MaxMeshWidth == 3   \* largest VoxelChunkWidth of the chunks that are meshed
MaxSolid == 2       \* a meshed chunk has up to MaxSolid solid voxels, or is all solid
MaxNoiseWidth == 2  \* largest VoxelChunkWidth of the chunks that are generated
MaxWorkers == 2     \* threads of the pool that runs the closure of from_noise
MaxSeed == 1        \* seeds of the noise field: 0..MaxSeed
MaxQuot == 1        \* world positions lie up to MaxQuot chunks from the origin, and one chunk beyond

VARIABLES
    observers,        \* sequence of [translation, val, unload_margin]
    voxel_chunk_map,  \* VoxelChunkMap: chunk coordinate -> Entity
    load,             \* ChunkLoadQueue.load
    unload,           \* ChunkLoadQueue.unload: <<coordinate, Entity>>
    queue,            \* ChunkRenderQueue.queue
    world,            \* spawned chunk entities: Entity -> [chunk_pos, mesh]
    commands,         \* deferred commands, in the order they were issued
    pc,               \* position in the chain: 1..5, 6 = commands are applied
    crashed,          \* a command panicked
    ran,              \* the systems that ran so far in this tick
    tick_start_map,   \* the registry as it was when the tick began
    unload_enqueues,  \* per handle in use: times it was put on the unload queue
    edits,            \* inspector edits made so far
    calc              \* argument and result of the conversion under study

streamVars == <<observers, voxel_chunk_map, load, unload, queue, world, commands,
                pc, crashed, ran, tick_start_map, unload_enqueues, edits>>

vars == <<streamVars, calc>>

----------------------------------------------------------------------------
(* Small helpers *)

Range(s) == {s[i] : i \in 1..Len(s)}

Contains(s, e) == \E i \in 1..Len(s) : s[i] = e

Abs(n) == IF n < 0 THEN -n ELSE n

\* Removes key k from function f.
Remove(f, k) == [x \in (DOMAIN f) \ {k} |-> f[x]]

\* Function f with key k set to v (k may be new).
Put(f, k, v) == [x \in (DOMAIN f) \cup {k} |-> IF x = k THEN v ELSE f[x]]

Empty == [x \in {} |-> 0]

----------------------------------------------------------------------------
(* Coordinates *)

\* Mutant: division that rounds toward minus infinity.
FloorDiv(a, b) == a \div b

\* Rust's i32 division: truncates toward zero.
TruncDiv(a, b) == IF a >= 0 THEN a \div b ELSE -((-a) \div b)

\* impl Sub<VoxelChunkPosition> for VoxelChunkPosition
Sub(a, b) == <<a[1] - b[1], a[2] - b[2], a[3] - b[3]>>

\* impl Div<i32> for VoxelChunkPosition
Div(a, rhs) == <<TruncDiv(a[1], rhs), TruncDiv(a[2], rhs), TruncDiv(a[3], rhs)>>

\* `as i32` of an integer-valued f32: the value, saturated at the ends of i32.
AsI32(v) ==
    IF v > 2147483647 THEN 2147483647
    ELSE IF v < -2147483647 - 1 THEN -2147483647 - 1
    ELSE v

\* VoxelChunkPosition::from_world_pos: the components cast to i32, divided by
\* the chunk width.
from_world_pos(world_pos, chunk_width) ==
    Div(<<AsI32(world_pos[1]), AsI32(world_pos[2]), AsI32(world_pos[3])>>, chunk_width)

\* <Vec3 as VoxelChunkCoordinate>::as_chunk_pos
as_chunk_pos(translation, chunk_width) == from_world_pos(translation, chunk_width)

\* distance.as_vec3().length() <= r as f32, for distance = (a - b).abs().
\* The squares are exact in f32 for the magnitudes of the model and sqrt is
\* correctly rounded, so the comparison is the comparison of the squares.
LengthSq(d) == Abs(d[1]) * Abs(d[1]) + Abs(d[2]) * Abs(d[2]) + Abs(d[3]) * Abs(d[3])

LengthWithin(chunk_pos, origin_chunk_pos, r) ==
    LengthSq(Sub(chunk_pos, origin_chunk_pos)) <= r * r

LengthExceeds(chunk_pos, origin_chunk_pos, r) ==
    LengthSq(Sub(chunk_pos, origin_chunk_pos)) > r * r

\* The k-th coordinate (k = 0, 1, ...) that the nested loops
\*   for x in min.x..=max.x { for y in .. { for z in .. {
\* visit, for the cube origin - r .. origin + r.
CubeAt(origin, r, k) ==
    LET n == 2 * r + 1
    IN  <<origin[1] - r + (k \div (n * n)),
          origin[2] - r + ((k \div n) % n),
          origin[3] - r + (k % n)>>

CubeSize(r) == (2 * r + 1) * (2 * r + 1) * (2 * r + 1)

----------------------------------------------------------------------------
(* LocalVoxelPosition *)

\* `as u8` and `as u32` of a non-negative value: the low 8 and the low 32
\* bits (the latter as two halves of 16 bits).
AsU8(n) == n % 256
AsU32(n) == (n % 65536) + 65536 * ((n \div 65536) % 65536)

\* LocalVoxelPosition::new
LocalVoxelPosition(x, y, z) == [x |-> x, y |-> y, z |-> z]

\* Mutant: y is not reduced modulo the chunk width.
from_index_no_wrap(index, cw) ==
    LocalVoxelPosition(AsU8(AsU32(index) % cw),
                       AsU8(AsU32(index) \div cw),
                       AsU8(AsU32(index) \div AsU32(cw * cw)))

\* LocalVoxelPosition::from_index, cw the chunk width (a u8) as u32.
from_index(index, cw) ==
    LocalVoxelPosition(AsU8(AsU32(index) % cw),
                       AsU8((AsU32(index) \div cw) % cw),
                       AsU8(AsU32(index) \div AsU32(cw * cw)))

\* LocalVoxelPosition::to_index (usize arithmetic).
to_index(p, cw) == p.z * cw * cw + p.y * cw + p.x

----------------------------------------------------------------------------
(* VoxelChunkMap *)

\* Mutant: the entry is written before the key is looked up.
insert_chunk_replacing(map, chunk_position, entity) ==
    [ok |-> chunk_position \notin DOMAIN map, map |-> [x \in (DOMAIN map) \cup {chunk_position} |->
                                                        IF x = chunk_position THEN entity ELSE map[x]]]

\* VoxelChunkMap::insert_chunk: [ok, map].
insert_chunk(map, chunk_position, entity) ==
    IF chunk_position \in DOMAIN map
    THEN [ok |-> FALSE, map |-> map]
    ELSE [ok |-> TRUE, map |-> Put(map, chunk_position, entity)]

\* Lexicographic order on coordinates.
Less(a, b) ==
    \/ a[1] < b[1]
    \/ a[1] = b[1] /\ a[2] < b[2]
    \/ a[1] = b[1] /\ a[2] = b[2] /\ a[3] < b[3]

\* voxel_chunk_map.0.iter(), restricted to `keys`: the keys in the iteration
\* order of the map.  The hasher of bevy::utils::HashMap is fixed, so the order
\* is a fixed one; the model takes the lexicographic order.
MapIter(keys) ==
    [i \in 1..Cardinality(keys) |->
        CHOOSE a \in keys : Cardinality({b \in keys : Less(b, a)}) = i - 1]

----------------------------------------------------------------------------
(* Entities and commands *)

Spawn(e, c) == [op |-> "spawn", entity |-> e, chunk_pos |-> c]
Despawn(e) == [op |-> "despawn", entity |-> e, chunk_pos |-> <<0, 0, 0>>]
InsertMesh(e) == [op |-> "insert_mesh", entity |-> e, chunk_pos |-> <<0, 0, 0>>]

\* Entities reserved by commands.spawn whose bundle is not inserted yet.
Reserved(cmds) == {cmds[i].entity : i \in {j \in 1..Len(cmds) : cmds[j].op = "spawn"}}

\* commands.get_entity(e).is_some(): the entity is alive or reserved; a queued
\* despawn does not count before it is applied.
get_entity(w, cmds, e) == e \in DOMAIN w \/ e \in Reserved(cmds)

\* chunk_query.get(e).is_ok(): the entity exists and has its VoxelChunk.
query_get(w, e) == e \in DOMAIN w

\* Handles carried by some entity, command, registry entry or queue item.
InUse(w, cmds, map, unl, rq) ==
    DOMAIN w \cup {cmds[i].entity : i \in 1..Len(cmds)}
             \cup {map[c] : c \in DOMAIN map}
             \cup {unl[i][2] : i \in 1..Len(unl)}
             \cup Range(rq)

\* commands.spawn(..).id() for a chunk at chunk_pos, while the handles `used`
\* are in use.
NewEntity(used, chunk_pos) ==
    <<chunk_pos, CHOOSE n \in 0..Cardinality(used) :
                     /\ <<chunk_pos, n>> \notin used
                     /\ \A m \in 0..(n - 1) : <<chunk_pos, m>> \in used>>

\* Mutant: one item is taken per run, whatever it is.
DrainedOneItem(n, stops) == IF n = 0 THEN 0 ELSE 1

\* The number of items a `loop { let Some(item) = front() else { break };
\* if !ok(item) { break }; ..; pop_front() }` takes off a queue of n items,
\* where stops holds the indices of the items that do not pass.
Drained(n, stops) ==
    IF stops = {} THEN n
    ELSE (CHOOSE i \in stops : \A j \in stops : i <= j) - 1

----------------------------------------------------------------------------
(* The five systems *)

\* The resource VoxelChunkWidth (its Default).
chunk_width == DEFAULT_CHUNK_WIDTH

\* Mutant: the sphere without its surface (< for <=).
InRenderDistanceStrict(chunk_pos, origin_chunk_pos, val) ==
    LengthSq(Sub(chunk_pos, origin_chunk_pos)) < val * val

\* Mutant: the whole scanned cube (Chebyshev distance).
InRenderDistanceCube(chunk_pos, origin_chunk_pos, val) ==
    /\ Abs(chunk_pos[1] - origin_chunk_pos[1]) <= val
    /\ Abs(chunk_pos[2] - origin_chunk_pos[2]) <= val
    /\ Abs(chunk_pos[3] - origin_chunk_pos[3]) <= val

\* The condition under which enqueue_chunks_in_render_distance pushes a
\* coordinate it has found neither registered nor queued.
InRenderDistance(chunk_pos, origin_chunk_pos, val) ==
    LengthWithin(chunk_pos, origin_chunk_pos, val)

\* Mutant: the load queue is not looked at before a coordinate is pushed.
EnqueueCubeNoQueueCheck(q, map, origin_chunk_pos, val) ==
    LET cube == [k \in 1..CubeSize(val) |-> CubeAt(origin_chunk_pos, val, k - 1)]
        Pushed(chunk_pos) ==
            /\ chunk_pos \notin DOMAIN map
            /\ InRenderDistance(chunk_pos, origin_chunk_pos, val)
    IN  q \o SelectSeq(cube, Pushed)

\* The three nested loops of enqueue_chunks_in_render_distance for one
\* observer.  The loops visit every coordinate of the cube once, so a
\* coordinate is found in the queue exactly when it was there before the loops.
EnqueueCube(q, map, origin_chunk_pos, val) ==
    LET cube == [k \in 1..CubeSize(val) |-> CubeAt(origin_chunk_pos, val, k - 1)]
        Pushed(chunk_pos) ==
            /\ ~(chunk_pos \in DOMAIN map \/ Contains(q, chunk_pos))
            /\ InRenderDistance(chunk_pos, origin_chunk_pos, val)
    IN  q \o SelectSeq(cube, Pushed)

\* enqueue_chunks_in_render_distance: the load queue after the observers
\* i, i + 1, ... were scanned.
RECURSIVE enqueue_chunks_in_render_distance(_, _, _, _)
enqueue_chunks_in_render_distance(q, map, obs, i) ==
    IF i > Len(obs) THEN q
    ELSE enqueue_chunks_in_render_distance(
             EnqueueCube(q, map, as_chunk_pos(obs[i].translation, chunk_width),
                         obs[i].val),
             map, obs, i + 1)

\* Mutant: the margin counted twice.
UnloadRadiusDoubleMargin(val, unload_margin) == val + 2 * unload_margin

\* Mutant: the margin forgotten.
UnloadRadiusNoMargin(val, unload_margin) == val

\* The radius beyond which an observer no longer holds a chunk.
UnloadRadius(val, unload_margin) == val + unload_margin

\* Mutant: any() for all().
CombineAny(verdicts) == \E i \in DOMAIN verdicts : verdicts[i]

\* How the verdicts of the observers combine: render_dist_query.iter().all(..)
Combine(verdicts) == \A i \in DOMAIN verdicts : verdicts[i]

\* The closure of unload_chunks_out_of_render_distance for one chunk.
OutOfRenderDistance(obs, chunk_pos) ==
    Combine([i \in 1..Len(obs) |->
        LengthExceeds(chunk_pos, as_chunk_pos(obs[i].translation, chunk_width),
                      UnloadRadius(obs[i].val, obs[i].unload_margin))])

\* unload_chunks_out_of_render_distance: the unload queue after the scan.
unload_chunks_out_of_render_distance(unl, map, obs) ==
    LET out == MapIter({c \in DOMAIN map : OutOfRenderDistance(obs, c)})
    IN  unl \o [i \in 1..Len(out) |-> <<out[i], map[out[i]]>>]

\* Mutant: the registry entry of an unloaded chunk is left in place.
handle_chunk_unloading_keeps_entry(unl, map, cmds, w) ==
    LET k == Drained(Len(unl), {i \in 1..Len(unl) : ~get_entity(w, cmds, unl[i][2])})
    IN  [unload |-> SubSeq(unl, k + 1, Len(unl)),
         map |-> map,
         commands |-> cmds \o [i \in 1..k |-> Despawn(unl[i][2])]]

\* handle_chunk_unloading: the loop stops at the first handle that
\* commands.get_entity does not resolve; the despawns it queues are deferred,
\* so they change no later answer of get_entity.
handle_chunk_unloading(unl, map, cmds, w) ==
    LET k == Drained(Len(unl), {i \in 1..Len(unl) : ~get_entity(w, cmds, unl[i][2])})
    IN  [unload |-> SubSeq(unl, k + 1, Len(unl)),
         map |-> [c \in (DOMAIN map) \ {unl[i][1] : i \in 1..k} |-> map[c]],
         commands |-> cmds \o [i \in 1..k |-> Despawn(unl[i][2])]]

\* handle_chunk_loading: the loop stops at the first coordinate that
\* insert_chunk refuses; the entity spawned for it is despawned again.
\* MapAt(i) is the registry the i-th round finds: the registry before the loop
\* and the entries the rounds before it inserted.
handle_chunk_loading(ld, rq, map, cmds, w, unl) ==
    LET used == InUse(w, cmds, map, unl, rq)
        chunk_entity(i) ==
            NewEntity(used \cup {NewEntity(used, ld[j]) : j \in 1..(i - 1)}, ld[i])
        MapAt(i) == [c \in DOMAIN map \cup {ld[j] : j \in 1..(i - 1)} |->
                        IF c \in DOMAIN map THEN map[c]
                        ELSE chunk_entity(CHOOSE j \in 1..(i - 1) : ld[j] = c)]
        k == Drained(Len(ld), {i \in 1..Len(ld) :
                ~insert_chunk(MapAt(i), ld[i], chunk_entity(i)).ok})
        spawned == cmds \o [i \in 1..k |-> Spawn(chunk_entity(i), ld[i])]
    IN  [load |-> SubSeq(ld, k + 1, Len(ld)),
         queue |-> rq \o [i \in 1..k |-> chunk_entity(i)],
         map |-> MapAt(k + 1),
         commands |-> IF k = Len(ld) THEN spawned
                      ELSE spawned \o <<Spawn(chunk_entity(k + 1), ld[k + 1]),
                                        Despawn(chunk_entity(k + 1))>>]

\* handle_chunk_rendering: the loop stops at the first handle whose VoxelChunk
\* the query does not find, or that commands.get_entity does not resolve.
handle_chunk_rendering(rq, cmds, w) ==
    LET k == Drained(Len(rq), {i \in 1..Len(rq) :
                ~(query_get(w, rq[i]) /\ get_entity(w, cmds, rq[i]))})
    IN  [queue |-> SubSeq(rq, k + 1, Len(rq)),
         commands |-> cmds \o [i \in 1..k |-> InsertMesh(rq[i])]]

\* Whether entity e exists once the first j commands are applied.
AliveAfter(w, cmds, j, e) ==
    LET life == {i \in 1..j : cmds[i].entity = e /\ cmds[i].op \in {"spawn", "despawn"}}
    IN  IF life = {} THEN e \in DOMAIN w
        ELSE cmds[CHOOSE i \in life : \A l \in life : l <= i].op = "spawn"

\* The commands applied in the order they were issued.  Inserting a component
\* on an entity that no longer exists panics; despawning one only warns.
apply_deferred(w, cmds) ==
    LET panics == {i \in 1..Len(cmds) :
                      cmds[i].op = "insert_mesh" /\ ~AliveAfter(w, cmds, i - 1, cmds[i].entity)}
        n == IF panics = {} THEN Len(cmds)
             ELSE (CHOOSE i \in panics : \A l \in panics : i <= l) - 1
        spawns(e) == {i \in 1..n : cmds[i].entity = e /\ cmds[i].op = "spawn"}
        last(e) == CHOOSE i \in spawns(e) : \A l \in spawns(e) : l <= i
        from(e) == IF spawns(e) = {} THEN 0 ELSE last(e)
        meshed(e) == \E i \in (from(e) + 1)..n :
                        cmds[i].entity = e /\ cmds[i].op = "insert_mesh"
        all == DOMAIN w \cup {cmds[i].entity : i \in 1..n}
    IN  [world |-> [e \in {x \in all : AliveAfter(w, cmds, n, x)} |->
                       IF spawns(e) = {}
                       THEN [chunk_pos |-> w[e].chunk_pos, mesh |-> w[e].mesh \/ meshed(e)]
                       ELSE [chunk_pos |-> cmds[last(e)].chunk_pos, mesh |-> meshed(e)]],
         crashed |-> panics # {}]

\* Mutant: the load queue drained before the unload queue.
ChainLoadFirst == <<"enqueue_chunks_in_render_distance",
                    "unload_chunks_out_of_render_distance",
                    "handle_chunk_loading",
                    "handle_chunk_unloading",
                    "handle_chunk_rendering">>

\* The systems of the Update schedule, chained in this order.
Chain == <<"enqueue_chunks_in_render_distance",
           "unload_chunks_out_of_render_distance",
           "handle_chunk_unloading",
           "handle_chunk_loading",
           "handle_chunk_rendering">>

AtSystem(name) == ~crashed /\ pc \in 1..Len(Chain) /\ Chain[pc] = name

----------------------------------------------------------------------------
(* Actions *)

\* RenderDistance::new(val, unload_margin) on an entity at Transform::from_xyz(0, 0, 0).
ObserverInit == [translation : {<<0, 0, 0>>}, val : 0..MaxR, unload_margin : 0..MaxM]

\* Where the camera controller may put an observer between two ticks.
Translations == {<<c * chunk_width, 0, 0>> : c \in -MaxPos..MaxPos}

StreamInit ==
    /\ observers \in UNION {[1..n -> ObserverInit] : n \in 0..MaxObservers}
    /\ voxel_chunk_map = Empty
    /\ load = <<>>
    /\ unload = <<>>
    /\ queue = <<>>
    /\ world = Empty
    /\ commands = <<>>
    /\ pc = 1
    /\ crashed = FALSE
    /\ ran = <<>>
    /\ tick_start_map = Empty
    /\ unload_enqueues = Empty
    /\ edits = 0

Init == StreamInit /\ calc = <<>>

\* The camera controller moves an observer; the move is seen by the next tick.
MoveObserver ==
    /\ ~crashed /\ pc = 1
    /\ \E i \in 1..Len(observers), t \in Translations :
          /\ t # observers[i].translation
          /\ observers' = [observers EXCEPT ![i].translation = t]
    /\ UNCHANGED <<voxel_chunk_map, load, unload, queue, world, commands, pc, crashed,
                   ran, tick_start_map, unload_enqueues, edits, calc>>

EnqueueChunksInRenderDistance ==
    /\ AtSystem("enqueue_chunks_in_render_distance")
    /\ load' = enqueue_chunks_in_render_distance(load, voxel_chunk_map, observers, 1)
    /\ pc' = pc + 1
    /\ ran' = (IF pc = 1 THEN <<>> ELSE ran) \o <<Chain[pc]>>
    /\ tick_start_map' = IF pc = 1 THEN voxel_chunk_map ELSE tick_start_map
    /\ UNCHANGED <<observers, voxel_chunk_map, unload, queue, world, commands, crashed,
                   unload_enqueues, edits, calc>>

UnloadChunksOutOfRenderDistance ==
    /\ AtSystem("unload_chunks_out_of_render_distance")
    /\ unload' = unload_chunks_out_of_render_distance(unload, voxel_chunk_map, observers)
    /\ LET pushed == SubSeq(unload', Len(unload) + 1, Len(unload'))
           hs == {pushed[i][2] : i \in 1..Len(pushed)}
           n(h) == Cardinality({i \in 1..Len(pushed) : pushed[i][2] = h})
       IN  unload_enqueues' =
             [h \in DOMAIN unload_enqueues \cup hs |->
                (IF h \in DOMAIN unload_enqueues THEN unload_enqueues[h] ELSE 0) + n(h)]
    /\ pc' = pc + 1
    /\ ran' = (IF pc = 1 THEN <<>> ELSE ran) \o <<Chain[pc]>>
    /\ tick_start_map' = IF pc = 1 THEN voxel_chunk_map ELSE tick_start_map
    /\ UNCHANGED <<observers, voxel_chunk_map, load, queue, world, commands, crashed,
                   edits, calc>>

HandleChunkUnloading ==
    /\ AtSystem("handle_chunk_unloading")
    /\ LET r == handle_chunk_unloading(unload, voxel_chunk_map, commands, world)
       IN  /\ unload' = r.unload
           /\ voxel_chunk_map' = r.map
           /\ commands' = r.commands
    /\ pc' = pc + 1
    /\ ran' = (IF pc = 1 THEN <<>> ELSE ran) \o <<Chain[pc]>>
    /\ tick_start_map' = IF pc = 1 THEN voxel_chunk_map ELSE tick_start_map
    /\ UNCHANGED <<observers, load, queue, world, crashed, unload_enqueues, edits, calc>>

HandleChunkLoading ==
    /\ AtSystem("handle_chunk_loading")
    /\ LET r == handle_chunk_loading(load, queue, voxel_chunk_map, commands, world, unload)
       IN  /\ load' = r.load
           /\ queue' = r.queue
           /\ voxel_chunk_map' = r.map
           /\ commands' = r.commands
    /\ pc' = pc + 1
    /\ ran' = (IF pc = 1 THEN <<>> ELSE ran) \o <<Chain[pc]>>
    /\ tick_start_map' = IF pc = 1 THEN voxel_chunk_map ELSE tick_start_map
    /\ UNCHANGED <<observers, unload, world, crashed, unload_enqueues, edits, calc>>

HandleChunkRendering ==
    /\ AtSystem("handle_chunk_rendering")
    /\ LET r == handle_chunk_rendering(queue, commands, world)
       IN  /\ queue' = r.queue
           /\ commands' = r.commands
    /\ pc' = pc + 1
    /\ ran' = (IF pc = 1 THEN <<>> ELSE ran) \o <<Chain[pc]>>
    /\ tick_start_map' = IF pc = 1 THEN voxel_chunk_map ELSE tick_start_map
    /\ UNCHANGED <<observers, voxel_chunk_map, load, unload, world, crashed,
                   unload_enqueues, edits, calc>>

\* The end of the Update schedule: the queued commands are applied and the
\* next tick may begin.
ApplyDeferred ==
    /\ ~crashed /\ pc = Len(Chain) + 1
    /\ LET r == apply_deferred(world, commands)
           used == InUse(r.world, <<>>, voxel_chunk_map, unload, queue)
       IN  /\ world' = r.world
           /\ crashed' = r.crashed
           /\ unload_enqueues' = [h \in DOMAIN unload_enqueues \cap used |->
                                     unload_enqueues[h]]
    /\ commands' = <<>>
    /\ pc' = 1
    /\ tick_start_map' = voxel_chunk_map
    /\ UNCHANGED <<observers, voxel_chunk_map, load, unload, queue, ran, edits, calc>>

Next ==
    \/ MoveObserver
    \/ EnqueueChunksInRenderDistance
    \/ UnloadChunksOutOfRenderDistance
    \/ HandleChunkUnloading
    \/ HandleChunkLoading
    \/ HandleChunkRendering
    \/ ApplyDeferred

Spec == Init /\ [][Next]_vars

----------------------------------------------------------------------------
(* The queues under the resource inspector *)

\* The coordinates an edit may name.
EditCoords == {<<x, 0, 0>> : x \in -MaxPos..MaxPos}

\* ChunkLoadQueue is registered for reflection and shown by
\* ResourceInspectorPlugin::<ChunkLoadQueue>, which hands its fields to the
\* user for editing while the application runs: between two ticks an item is
\* added to the load queue or to the unload queue.
InspectorEdit ==
    /\ ~crashed /\ pc = 1 /\ edits < MaxEdits
    /\ edits' = edits + 1
    /\ \E c \in EditCoords :
          \/ load' = Append(load, c) /\ UNCHANGED unload
          \/ unload' = Append(unload, <<c, <<c, 0>>>>) /\ UNCHANGED load
    /\ UNCHANGED <<observers, voxel_chunk_map, queue, world, commands, pc, crashed,
                   ran, tick_start_map, unload_enqueues, calc>>

\* An unload queue whose head never resolves grows with every tick; the model
\* follows it while the items left over at the start of a tick are few.
NextInspector ==
    \/ InspectorEdit
    \/ (pc = 1 => Len(unload) <= MaxBacklog) /\ Next

\* The application as main() sets it up: one observer.
InitInspector == Init /\ Len(observers) = 1

SpecInspector == InitInspector /\ [][NextInspector]_vars

----------------------------------------------------------------------------
(* The registry and the index conversions on their own *)

\* No observer, nothing loaded: the scheduler at rest.
StreamIdle == StreamInit /\ observers = <<>>

RegistryKeys == {<<x, 0, 0>> : x \in 0..MaxKeys}

RegistryEntities == {<<c, 0>> : c \in RegistryKeys}

InitRegistry ==
    /\ StreamIdle
    /\ calc = [op |-> "new", before |-> Empty, chunk_position |-> <<0, 0, 0>>,
               entity |-> <<<<0, 0, 0>>, 0>>, ok |-> TRUE, map |-> Empty]

\* One call of VoxelChunkMap::insert_chunk on the registry calc.map.
InsertChunk ==
    /\ \E c \in RegistryKeys, e \in RegistryEntities :
          LET r == insert_chunk(calc.map, c, e)
          IN  calc' = [op |-> "insert_chunk", before |-> calc.map, chunk_position |-> c,
                       entity |-> e, ok |-> r.ok, map |-> r.map]
    /\ UNCHANGED streamVars

SpecRegistry == InitRegistry /\ [][InsertChunk]_vars

InitIndex ==
    /\ StreamIdle
    /\ \E cw \in 1..MaxWidth :
          \/ \E i \in 0..(cw * cw * cw - 1) :
                calc = [op |-> "index", cw |-> cw, index |-> i]
          \/ \E x, y, z \in 0..(cw - 1) :
                calc = [op |-> "position", cw |-> cw, pos |-> LocalVoxelPosition(x, y, z)]

\* from_index of an index, then to_index of the result.
IndexToPosition ==
    /\ calc.op = "index"
    /\ calc' = [op |-> "from_index", cw |-> calc.cw, index |-> calc.index,
                pos |-> from_index(calc.index, calc.cw)]
    /\ UNCHANGED streamVars

PositionBackToIndex ==
    /\ calc.op = "from_index"
    /\ calc' = [op |-> "index_round_trip", cw |-> calc.cw, index |-> calc.index,
                pos |-> calc.pos, back |-> to_index(calc.pos, calc.cw)]
    /\ UNCHANGED streamVars

\* to_index of a position, then from_index of the result.
PositionToIndex ==
    /\ calc.op = "position"
    /\ calc' = [op |-> "to_index", cw |-> calc.cw, pos |-> calc.pos,
                index |-> to_index(calc.pos, calc.cw)]
    /\ UNCHANGED streamVars

IndexBackToPosition ==
    /\ calc.op = "to_index"
    /\ calc' = [op |-> "position_round_trip", cw |-> calc.cw, pos |-> calc.pos,
                index |-> calc.index, back |-> from_index(calc.index, calc.cw)]
    /\ UNCHANGED streamVars

NextIndex ==
    \/ IndexToPosition
    \/ PositionBackToIndex
    \/ PositionToIndex
    \/ IndexBackToPosition

SpecIndex == InitIndex /\ [][NextIndex]_vars

----------------------------------------------------------------------------
(* Properties of the streaming scheduler *)

\* The origin chunk of observer i.
Origin(i) == <<TruncDiv(observers[i].translation[1], DEFAULT_CHUNK_WIDTH),
               TruncDiv(observers[i].translation[2], DEFAULT_CHUNK_WIDTH),
               TruncDiv(observers[i].translation[3], DEFAULT_CHUNK_WIDTH)>>

\* Squared Euclidean distance, in chunk units, of coordinate c from observer i.
DistSq(c, i) ==
    (c[1] - Origin(i)[1]) * (c[1] - Origin(i)[1])
  + (c[2] - Origin(i)[2]) * (c[2] - Origin(i)[2])
  + (c[3] - Origin(i)[3]) * (c[3] - Origin(i)[3])

\* The coordinates at Chebyshev distance <= r of observer i.
Box(i, r) ==
    {<<x, y, z>> : x \in (Origin(i)[1] - r)..(Origin(i)[1] + r),
                   y \in (Origin(i)[2] - r)..(Origin(i)[2] + r),
                   z \in (Origin(i)[3] - r)..(Origin(i)[3] + r)}

\* The coordinates at Euclidean distance <= r of observer i.
Ball(i, r) == {c \in Box(i, r) : DistSq(c, i) <= r * r}

Registered == DOMAIN voxel_chunk_map

\* All five systems of the tick have run; its commands are not applied yet.
TickDone == ~crashed /\ pc = 6

\* The step is the run of the system `name`.
Runs(name) ==
    /\ ~crashed /\ pc \in 1..5 /\ pc' = pc + 1
    /\ ran' = (IF pc = 1 THEN <<>> ELSE ran) \o <<name>>

\* C1: at the end of every tick every coordinate within Euclidean distance R
\* of the origin chunk of some observer is registered.
C1_RenderDistanceLoaded ==
    TickDone =>
        \A i \in 1..Len(observers) : Ball(i, observers[i].val) \subseteq Registered

\* C1 witness: a tick ends that began with a non-empty registry and with an
\* observer away from where it started, around which a sphere of 33 chunks
\* is registered.
C1_Witness ==
    /\ TickDone
    /\ tick_start_map # Empty
    /\ \E i \in 1..Len(observers) :
          /\ observers[i].val = 2
          /\ Origin(i) # <<0, 0, 0>>
          /\ Cardinality(Ball(i, 2) \cap Registered) = 33
          /\ ~(Ball(i, 2) \subseteq DOMAIN tick_start_map)

\* The items a step appended to the load queue.
LoadPushed == SubSeq(load', Len(load) + 1, Len(load'))

\* C2: one run of enqueue_chunks_in_render_distance appends to the load queue
\* exactly the coordinates that are within Euclidean distance R of some
\* observer, unregistered and not queued before, each once; one observer at
\* chunk (0,0,0) with R = 2, M = 0 and nothing registered or queued yields 33.
C2_LoadSet ==
    [][Runs("enqueue_chunks_in_render_distance") =>
         /\ Len(load') >= Len(load)
         /\ SubSeq(load', 1, Len(load)) = load
         /\ Range(LoadPushed) =
               (UNION {Ball(i, observers[i].val) : i \in 1..Len(observers)})
                   \ (Registered \cup Range(load))
         /\ Cardinality(Range(LoadPushed)) = Len(LoadPushed)
         /\ (/\ Len(observers) = 1
             /\ observers[1].val = 2
             /\ observers[1].unload_margin = 0
             /\ Origin(1) = <<0, 0, 0>>
             /\ Registered = {}
             /\ load = <<>>) => Len(LoadPushed) = 33]_vars

\* C2 witness: the system has just run for two observers whose spheres
\* overlap, with some chunks registered before; it queued coordinates of the
\* overlap.
C2_Witness ==
    /\ pc = 2 /\ ran = <<"enqueue_chunks_in_render_distance">>
    /\ Len(observers) = 2
    /\ Registered # {}
    /\ \E c \in Range(load) :
          /\ c \in Ball(1, observers[1].val)
          /\ c \in Ball(2, observers[2].val)

\* The items a step appended to the unload queue.
UnloadPushed == SubSeq(unload', Len(unload) + 1, Len(unload'))

\* The registered chunks farther than R + M from every observer.
BeyondAll ==
    {c \in Registered :
        \A i \in 1..Len(observers) :
            DistSq(c, i) > (observers[i].val + observers[i].unload_margin)
                         * (observers[i].val + observers[i].unload_margin)}

\* C3: with a single observer, a run of unload_chunks_out_of_render_distance
\* puts on the unload queue no chunk at distance d <= R + M and every
\* registered chunk at d > R + M, and no chunk is put on it twice.
C3_UnloadHysteresis ==
    /\ [][(Len(observers) = 1 /\ Runs("unload_chunks_out_of_render_distance")) =>
            /\ SubSeq(unload', 1, Len(unload)) = unload
            /\ Range(UnloadPushed) = {<<c, voxel_chunk_map[c]>> : c \in BeyondAll}
            /\ Cardinality(Range(UnloadPushed)) = Len(UnloadPushed)]_vars
    /\ [](Len(observers) = 1 =>
            \A h \in DOMAIN unload_enqueues : unload_enqueues[h] <= 1)

\* C3 witness: the scan has just run for a single observer with a margin; it
\* queued a chunk beyond R + M and left one of the band (R, R + M] registered
\* and unqueued.
C3_Witness ==
    /\ pc = 3 /\ Len(observers) = 1 /\ observers[1].unload_margin > 0
    /\ unload # <<>>
    /\ \E c \in Registered :
          /\ DistSq(c, 1) > observers[1].val * observers[1].val
          /\ c \notin {unload[i][1] : i \in 1..Len(unload)}

\* The registered chunks within R + M of at least one observer.
NearSome == Registered \ BeyondAll

\* C4: with two or more observers, a registered chunk within R + M of at
\* least one observer is neither put on the unload queue nor removed from the
\* registry in that tick.
C4_MultiObserverRetention ==
    [][(Len(observers) >= 2 /\ observers' = observers) =>
          \A c \in NearSome :
              /\ c \in DOMAIN voxel_chunk_map'
              /\ Len(unload') > Len(unload) =>
                    \A i \in 1..Len(UnloadPushed) : UnloadPushed[i][1] # c]_vars

\* C4 witness: the unloader has just removed chunks while a chunk that is
\* within R + M of one observer and beyond R + M of the other stays.
C4_Witness ==
    /\ pc = 4 /\ Len(observers) = 2
    /\ ~(DOMAIN tick_start_map \subseteq Registered)
    /\ \E c \in Registered, i, j \in 1..2 :
          /\ DistSq(c, i) <= (observers[i].val + observers[i].unload_margin)
                           * (observers[i].val + observers[i].unload_margin)
          /\ DistSq(c, j) > (observers[j].val + observers[j].unload_margin)
                          * (observers[j].val + observers[j].unload_margin)

\* The order of the systems within a tick.
TickOrder == <<"enqueue_chunks_in_render_distance",
               "unload_chunks_out_of_render_distance",
               "handle_chunk_unloading",
               "handle_chunk_loading",
               "handle_chunk_rendering">>

\* C9: in every tick the five systems run once each, one after the other, in
\* the order enqueue loads, enqueue unloads, drain unloads, drain loads, drain
\* renders; a chunk removed from the registry was registered, under the same
\* handle, when the tick began.
C9_TickOrder ==
    /\ [](~crashed =>
            /\ pc \in 2..6 => ran = SubSeq(TickOrder, 1, pc - 1)
            /\ pc = 1 => ran \in {<<>>, TickOrder})
    /\ [][\A c \in Registered \ DOMAIN voxel_chunk_map' :
             /\ c \in DOMAIN tick_start_map
             /\ tick_start_map[c] = voxel_chunk_map[c]]_vars

\* C9 witness: a tick is complete in which chunks were registered and others
\* were removed.
C9_Witness ==
    /\ TickDone /\ ran = TickOrder
    /\ ~(Registered \subseteq DOMAIN tick_start_map)
    /\ ~(DOMAIN tick_start_map \subseteq Registered)

----------------------------------------------------------------------------
(* Properties of the queue drains *)

\* The commands a step queued.
Queued == SubSeq(commands', Len(commands) + 1, Len(commands'))

\* The handles the registry holds.
Handles == {voxel_chunk_map[c] : c \in Registered}

\* C6: when handle_chunk_loading meets a load-queue coordinate that is already
\* registered, it leaves the registry entry as it is, goes on with the items
\* behind it, and leaves no item on the load queue.
C6_LoadingContinuesAfterConflict ==
    [][Runs("handle_chunk_loading") =>
          /\ \A c \in Registered :
                c \in DOMAIN voxel_chunk_map' /\ voxel_chunk_map'[c] = voxel_chunk_map[c]
          /\ \A c \in Range(load) : c \in DOMAIN voxel_chunk_map'
          /\ load' = <<>>]_vars

\* C7: when handle_chunk_unloading meets an unload item whose handle is
\* invalid, it skips the item and goes on: every item behind it with a valid
\* handle is despawned and removed from the registry, and no item stays on
\* the unload queue.
C7_UnloadingContinuesAfterMissing ==
    [][Runs("handle_chunk_unloading") =>
          /\ \A i \in 1..Len(unload) :
                (unload[i][2] \in DOMAIN world) =>
                    /\ unload[i][1] \notin DOMAIN voxel_chunk_map'
                    /\ \E j \in 1..Len(Queued) :
                          Queued[j].op = "despawn" /\ Queued[j].entity = unload[i][2]
          /\ unload' = <<>>]_vars

\* C8: handle_chunk_rendering drops a render request whose chunk is no longer
\* registered: the request leaves the render queue and no mesh is made or
\* attached for it; the requests behind it whose chunk exists are meshed.
C8_StaleRenderDropped ==
    [][Runs("handle_chunk_rendering") =>
          \A i \in 1..Len(queue) :
              /\ queue[i] \notin Handles =>
                    /\ queue[i] \notin Range(queue')
                    /\ \A j \in 1..Len(Queued) :
                          ~(Queued[j].op = "insert_mesh" /\ Queued[j].entity = queue[i])
              /\ (queue[i] \in Handles /\ queue[i] \in DOMAIN world) =>
                    /\ queue[i] \notin Range(queue')
                    /\ \E j \in 1..Len(Queued) :
                          Queued[j].op = "insert_mesh" /\ Queued[j].entity = queue[i]]_vars

----------------------------------------------------------------------------
(* Properties of the registry and of the index conversions *)

\* C5: insert_chunk with a registered coordinate returns an error and leaves
\* the registry as it was; with an unregistered coordinate it returns Ok and
\* adds exactly that entry.
C5_InsertChunkExclusive ==
    calc.op = "insert_chunk" =>
        IF calc.chunk_position \in DOMAIN calc.before
        THEN ~calc.ok /\ calc.map = calc.before
        ELSE /\ calc.ok
             /\ DOMAIN calc.map = DOMAIN calc.before \cup {calc.chunk_position}
             /\ calc.map[calc.chunk_position] = calc.entity
             /\ \A c \in DOMAIN calc.before : calc.map[c] = calc.before[c]

\* C5 witness: a second insert of a coordinate, with another handle than the
\* first, into a registry of several entries was refused.
C5_Witness ==
    /\ calc.op = "insert_chunk"
    /\ ~calc.ok
    /\ Cardinality(DOMAIN calc.before) >= 2
    /\ calc.before[calc.chunk_position] # calc.entity

\* C10: for every chunk width W in 1..MaxWidth (16 included), from_index of
\* to_index is the identity on [0, W)^3, to_index of from_index is the
\* identity on [0, W^3), and to_index(x, y, z) = z*W*W + y*W + x lies in
\* [0, W^3).
C10_IndexRoundTrip ==
    /\ calc.op = "index_round_trip" =>
          /\ calc.back = calc.index
          /\ calc.pos.x \in 0..(calc.cw - 1)
          /\ calc.pos.y \in 0..(calc.cw - 1)
          /\ calc.pos.z \in 0..(calc.cw - 1)
    /\ calc.op \in {"to_index", "position_round_trip"} =>
          /\ calc.index = calc.pos.z * calc.cw * calc.cw + calc.pos.y * calc.cw + calc.pos.x
          /\ calc.index \in 0..(calc.cw * calc.cw * calc.cw - 1)
    /\ calc.op = "position_round_trip" => calc.back = calc.pos

\* C10 witness: the position (15, 15, 15) of a chunk of width 16 came back
\* from its index 4095.
C10_Witness ==
    /\ calc.op = "position_round_trip"
    /\ calc.cw = 16
    /\ calc.pos = [x |-> 15, y |-> 15, z |-> 15]
    /\ calc.index = 4095
    /\ calc.back = calc.pos

----------------------------------------------------------------------------
(* Chunk coordinate -> world origin -> chunk coordinate *)

\* The spacing of the f32 values around the magnitude a: an f32 has 24 bits
\* of mantissa, so integers up to 2^24 are exact, those up to 2^25 are even,
\* and so on.
F32Ulp(a) ==
    IF a < 16777216 THEN 1
    ELSE IF a < 33554432 THEN 2
    ELSE IF a < 67108864 THEN 4
    ELSE IF a < 134217728 THEN 8
    ELSE IF a < 268435456 THEN 16
    ELSE IF a < 536870912 THEN 32
    ELSE IF a < 1073741824 THEN 64
    ELSE 128

\* The f32 nearest to the integer n, ties to even: `n as f32` for an i32 or a
\* u8, and the rounding of the exact product of two f32.
F32(n) ==
    LET a == Abs(n)
        u == F32Ulp(a)
        q == a \div u
        r == a % u
        m == IF 2 * r < u THEN q
             ELSE IF 2 * r > u THEN q + 1
             ELSE IF q % 2 = 0 THEN q ELSE q + 1
    IN  IF n < 0 THEN -(m * u) ELSE m * u

\* <Vec3 as VoxelChunkCoordinate>::from_chunk_pos: the components as f32,
\* times the chunk width as f32.
from_chunk_pos(chunk_pos, cw) ==
    <<F32(F32(chunk_pos[1]) * F32(cw)),
      F32(F32(chunk_pos[2]) * F32(cw)),
      F32(F32(chunk_pos[3]) * F32(cw))>>

\* The values a component of a chunk coordinate takes in the conversions:
\* small ones of both signs, and ones around 2^24 of both signs.
CoordSamples ==
    (-MaxCoord..MaxCoord)
        \cup {16777216 + k : k \in -1..MaxCoord}
        \cup {-(16777216 + k) : k \in -1..MaxCoord}

InitCoord ==
    /\ StreamIdle
    /\ \E cw \in 1..MaxWidth, x, y, z \in CoordSamples :
          calc = [op |-> "chunk_pos", cw |-> cw, chunk_pos |-> <<x, y, z>>]

\* Vec3::from_chunk_pos of a chunk coordinate.
ChunkToWorld ==
    /\ calc.op = "chunk_pos"
    /\ calc' = [op |-> "from_chunk_pos", cw |-> calc.cw, chunk_pos |-> calc.chunk_pos,
                world_pos |-> from_chunk_pos(calc.chunk_pos, calc.cw)]
    /\ UNCHANGED streamVars

\* VoxelChunkPosition::from_world_pos of the world origin.
WorldBackToChunk ==
    /\ calc.op = "from_chunk_pos"
    /\ calc' = [op |-> "chunk_round_trip", cw |-> calc.cw, chunk_pos |-> calc.chunk_pos,
                world_pos |-> calc.world_pos,
                back |-> from_world_pos(calc.world_pos, calc.cw)]
    /\ UNCHANGED streamVars

NextCoord ==
    \/ ChunkToWorld
    \/ WorldBackToChunk

SpecCoord == InitCoord /\ [][NextCoord]_vars

\* C11: for every chunk coordinate c, negative components included, and every
\* chunk width W >= 1, from_world_pos(from_chunk_pos(c, W), W) = c.
C11_ChunkRoundTrip ==
    calc.op = "chunk_round_trip" => calc.back = calc.chunk_pos

----------------------------------------------------------------------------
(* Voxels and cube faces *)

\* Voxel::AIR and Voxel::STONE, by their id.
AIR == 0
STONE == 1

\* Mutant: air counts as solid too.
is_solid_always(voxel) == TRUE

\* Voxel::is_solid
is_solid(voxel) == voxel # AIR

\* An Option: Some(val) or None.
Some(val) == [some |-> TRUE, val |-> val]
None == [some |-> FALSE, val |-> 0]

\* u8::checked_add_signed
checked_add_signed(lhs, rhs) ==
    IF lhs + rhs < 0 \/ lhs + rhs > 255 THEN None ELSE Some(lhs + rhs)

DIRECT_CUBE_NEIGHBOURS ==
    <<<<0, 1, 0>>, <<0, -1, 0>>, <<-1, 0, 0>>, <<1, 0, 0>>, <<0, 0, -1>>, <<0, 0, 1>>>>

\* CubeFace::from_ivec3; any other vector panics.
from_ivec3(vec3) ==
    CASE vec3 = <<0, 1, 0>> -> "Top"
      [] vec3 = <<0, -1, 0>> -> "Bottom"
      [] vec3 = <<-1, 0, 0>> -> "Left"
      [] vec3 = <<1, 0, 0>> -> "Right"
      [] vec3 = <<0, 0, -1>> -> "Front"
      [] vec3 = <<0, 0, 1>> -> "Back"

\* CubeFace::normals
normals(face) ==
    CASE face = "Top" -> [k \in 1..4 |-> <<0, 1, 0>>]
      [] face = "Bottom" -> [k \in 1..4 |-> <<0, -1, 0>>]
      [] face = "Left" -> [k \in 1..4 |-> <<-1, 0, 0>>]
      [] face = "Right" -> [k \in 1..4 |-> <<1, 0, 0>>]
      [] face = "Front" -> [k \in 1..4 |-> <<0, 0, 1>>]
      [] face = "Back" -> [k \in 1..4 |-> <<0, 0, -1>>]

\* The match of CubeFace::indices.
base_indices(face) ==
    CASE face = "Top" -> <<2, 0, 1, 1, 3, 2>>
      [] face = "Bottom" -> <<3, 1, 0, 0, 2, 3>>
      [] face = "Left" -> <<0, 1, 3, 3, 2, 0>>
      [] face = "Right" -> <<1, 0, 2, 2, 3, 1>>
      [] face = "Front" -> <<1, 0, 2, 2, 3, 1>>
      [] face = "Back" -> <<0, 1, 3, 3, 2, 0>>

\* Mutant: the offset of the face is not added.
indices_unshifted(face, vertices_pushed) == base_indices(face)

\* Mutant: the triangles are read backwards.
indices_reversed(face, vertices_pushed) ==
    [k \in 1..6 |-> AsU32(base_indices(face)[7 - k] + vertices_pushed)]

\* CubeFace::indices (u32 arithmetic).
indices(face, vertices_pushed) ==
    [k \in 1..6 |-> AsU32(base_indices(face)[k] + vertices_pushed)]

\* CubeCorner::VERTICES.  The model measures positions in half voxels, so
\* that the corner (-0.5, -0.5, -0.5) is <<-1, -1, -1>>.
VERTICES ==
    <<<<-1, -1, -1>>, <<-1, -1, 1>>, <<1, -1, -1>>, <<1, -1, 1>>,
      <<-1, 1, -1>>, <<-1, 1, 1>>, <<1, 1, -1>>, <<1, 1, 1>>>>

\* CubeCorner::vertex
vertex(corner) ==
    CASE corner = "BottomLeftFront" -> VERTICES[1]
      [] corner = "BottomLeftBack" -> VERTICES[2]
      [] corner = "BottomRightFront" -> VERTICES[3]
      [] corner = "BottomRightBack" -> VERTICES[4]
      [] corner = "TopLeftFront" -> VERTICES[5]
      [] corner = "TopLeftBack" -> VERTICES[6]
      [] corner = "TopRightFront" -> VERTICES[7]
      [] corner = "TopRightBack" -> VERTICES[8]

\* CubeFace::vertices
vertices(face) ==
    CASE face = "Top" -> <<vertex("TopLeftFront"), vertex("TopLeftBack"),
                           vertex("TopRightFront"), vertex("TopRightBack")>>
      [] face = "Bottom" -> <<vertex("BottomLeftFront"), vertex("BottomLeftBack"),
                              vertex("BottomRightFront"), vertex("BottomRightBack")>>
      [] face = "Left" -> <<vertex("BottomLeftFront"), vertex("BottomLeftBack"),
                            vertex("TopLeftFront"), vertex("TopLeftBack")>>
      [] face = "Right" -> <<vertex("BottomRightFront"), vertex("BottomRightBack"),
                             vertex("TopRightFront"), vertex("TopRightBack")>>
      [] face = "Front" -> <<vertex("BottomLeftFront"), vertex("BottomRightFront"),
                             vertex("TopLeftFront"), vertex("TopRightFront")>>
      [] face = "Back" -> <<vertex("BottomLeftBack"), vertex("BottomRightBack"),
                            vertex("TopLeftBack"), vertex("TopRightBack")>>

----------------------------------------------------------------------------
(* VoxelChunk::generate_mesh *)

\* VoxelChunkMap::get_voxel.  chunks is what the Query<&VoxelChunk> finds: the
\* voxels of every entity that carries a VoxelChunk.
get_voxel(map, chunks, chunk_position, local_voxel_position, cw) ==
    IF chunk_position \notin DOMAIN map THEN None
    ELSE IF map[chunk_position] \notin DOMAIN chunks THEN None
    ELSE LET voxels == chunks[map[chunk_position]]
             index == to_index(local_voxel_position, cw)
         IN  IF index < Len(voxels) THEN Some(voxels[index + 1]) ELSE None

\* The body of `for neighbour in DIRECT_CUBE_NEIGHBOURS`: whether the face
\* towards neighbour is pushed for the voxel at local_voxel_pos.
PushesFace(local_voxel_pos, neighbour, cw, map, chunks) ==
    LET nx == checked_add_signed(local_voxel_pos.x, neighbour[1])
        ny == checked_add_signed(local_voxel_pos.y, neighbour[2])
        nz == checked_add_signed(local_voxel_pos.z, neighbour[3])
    IN  IF ~nx.some \/ ~ny.some \/ ~nz.some THEN FALSE
        ELSE LET found == get_voxel(map, chunks, <<0, 0, 0>>,
                                    LocalVoxelPosition(nx.val, ny.val, nz.val), cw)
             IN  IF found.some THEN ~is_solid(found.val) ELSE TRUE

\* `for face in faces`: the buffers after the faces k, k + 1, ... of the voxel
\* with index i were appended.  The field faces is not part of the Mesh: it
\* records which face of which voxel each group of the buffers was pushed for.
RECURSIVE PushFaces(_, _, _, _, _)
PushFaces(mesh, faces, k, i, local_voxel_pos) ==
    IF k > Len(faces) THEN mesh
    ELSE PushFaces(
             [indices |-> mesh.indices \o indices(faces[k], mesh.vertices_pushed),
              vertices |-> mesh.vertices \o
                  [c \in 1..Len(vertices(faces[k])) |->
                      <<2 * local_voxel_pos.x + vertices(faces[k])[c][1],
                        2 * local_voxel_pos.y + vertices(faces[k])[c][2],
                        2 * local_voxel_pos.z + vertices(faces[k])[c][3]>>],
              vertices_pushed |-> AsU32(mesh.vertices_pushed + Len(vertices(faces[k]))),
              normals |-> mesh.normals \o normals(faces[k]),
              faces |-> Append(mesh.faces, [i |-> i, face |-> faces[k]])],
             faces, k + 1, i, local_voxel_pos)

\* `for (i, voxel) in self.voxels.iter().enumerate()`: the buffers after the
\* voxels i, i + 1, ... were visited.
RECURSIVE MeshVoxels(_, _, _, _, _, _)
MeshVoxels(mesh, voxels, i, cw, map, chunks) ==
    IF i >= Len(voxels) THEN mesh
    ELSE IF ~is_solid(voxels[i + 1])
         THEN MeshVoxels(mesh, voxels, i + 1, cw, map, chunks)
         ELSE LET local_voxel_pos == from_index(i, cw)
                  towards == SelectSeq(DIRECT_CUBE_NEIGHBOURS,
                                 LAMBDA neighbour :
                                     PushesFace(local_voxel_pos, neighbour, cw, map, chunks))
                  faces == [k \in 1..Len(towards) |-> from_ivec3(towards[k])]
              IN  MeshVoxels(PushFaces(mesh, faces, 1, i, local_voxel_pos),
                             voxels, i + 1, cw, map, chunks)

\* VoxelChunk::generate_mesh
generate_mesh(voxels, cw, map, chunks) ==
    MeshVoxels([indices |-> <<>>, vertices |-> <<>>, vertices_pushed |-> 0,
                normals |-> <<>>, faces |-> <<>>],
               voxels, 0, cw, map, chunks)

\* The sets of solid voxels of the chunks that are meshed: up to MaxSolid
\* voxels anywhere among the n of the chunk, or all of them.
SolidSets(n) ==
    {{s[k] : k \in 1..MaxSolid} \ {-1} : s \in [1..MaxSolid -> (-1)..(n - 1)]}
        \cup {0..(n - 1)}

\* The voxel array whose solid voxels are those of the indices in solid.
Voxels(n, solid) == [i \in 1..n |-> IF (i - 1) \in solid THEN STONE ELSE AIR]

\* A chunk about to be meshed by handle_chunk_rendering: its entity carries
\* its voxels; it is registered under its coordinate, or was unloaded in this
\* tick; other coordinates are unregistered, or hold a chunk of air or one of
\* stone.
InitMesh ==
    /\ StreamIdle
    /\ \E cw \in 1..MaxMeshWidth, chunk_pos \in RegistryKeys, registered \in BOOLEAN :
       \E solid \in SolidSets(cw * cw * cw),
          others \in [RegistryKeys \ {chunk_pos} -> {"none", "air", "stone"}] :
          LET n == cw * cw * cw
              present == {c \in RegistryKeys \ {chunk_pos} : others[c] # "none"}
          IN  calc = [op |-> "chunk", cw |-> cw, chunk_pos |-> chunk_pos,
                      entity |-> <<chunk_pos, 0>>,
                      map |-> [c \in present \cup (IF registered THEN {chunk_pos} ELSE {})
                                 |-> <<c, 0>>],
                      chunks |-> [e \in {<<c, 0>> : c \in present \cup {chunk_pos}} |->
                                    IF e[1] = chunk_pos THEN Voxels(n, solid)
                                    ELSE IF others[e[1]] = "stone" THEN Voxels(n, 0..(n - 1))
                                    ELSE Voxels(n, {})]]

\* chunk.generate_mesh(&chunk_width, &voxel_chunk_map, &chunk_query)
GenerateMesh ==
    /\ calc.op = "chunk"
    /\ calc' = [op |-> "generate_mesh", cw |-> calc.cw, chunk_pos |-> calc.chunk_pos,
                entity |-> calc.entity, map |-> calc.map, chunks |-> calc.chunks,
                mesh |-> generate_mesh(calc.chunks[calc.entity], calc.cw,
                                       calc.map, calc.chunks)]
    /\ UNCHANGED streamVars

SpecMesh == InitMesh /\ [][GenerateMesh]_vars

----------------------------------------------------------------------------
(* Properties of the mesher *)

\* The chunk that was meshed: its width, its voxels, the indices of its solid
\* voxels, and the mesh made of it.
MeshWidth == calc.cw
MeshedVoxels == calc.chunks[calc.entity]
Solid == {i \in 0..(Len(MeshedVoxels) - 1) : MeshedVoxels[i + 1] # 0}
Meshed == calc.mesh

\* The local position of the voxel stored at index i, as a triple.
PositionOf(i) ==
    <<i % MeshWidth, (i \div MeshWidth) % MeshWidth, i \div (MeshWidth * MeshWidth)>>

\* The six directions: +y, -y, -x, +x, -z, +z.
Directions ==
    {<<0, 1, 0>>, <<0, -1, 0>>, <<-1, 0, 0>>, <<1, 0, 0>>, <<0, 0, -1>>, <<0, 0, 1>>}

\* The position next to the voxel at index i in direction d.
Towards(i, d) == <<PositionOf(i)[1] + d[1], PositionOf(i)[2] + d[2], PositionOf(i)[3] + d[3]>>

\* Whether position p lies inside the local bounds [0, W)^3.
InBounds(p) == \A k \in 1..3 : p[k] \in 0..(MeshWidth - 1)

\* The voxel of the meshed chunk at the in-bounds position p.
VoxelAt(p) == MeshedVoxels[p[3] * MeshWidth * MeshWidth + p[2] * MeshWidth + p[1] + 1]

\* The name of the face towards d.
FaceTowards(d) ==
    CASE d = <<0, 1, 0>> -> "Top"
      [] d = <<0, -1, 0>> -> "Bottom"
      [] d = <<-1, 0, 0>> -> "Left"
      [] d = <<1, 0, 0>> -> "Right"
      [] d = <<0, 0, -1>> -> "Front"
      [] d = <<0, 0, 1>> -> "Back"

\* Whether the mesh has the face of voxel i towards d.
Emitted(i, d) ==
    \E f \in 1..Len(Meshed.faces) : Meshed.faces[f] = [i |-> i, face |-> FaceTowards(d)]

\* Chunk coordinates next to each other: they differ, by at most one in every
\* component.
Neighbouring(a, b) == a # b /\ \A k \in 1..3 : Abs(a[k] - b[k]) <= 1

\* C12: a chunk of width >= 3 with exactly one solid voxel, whose six
\* neighbouring positions lie inside the chunk (and are empty), meshed while
\* no neighbouring chunk is registered, yields 6 faces: 24 positions, 24
\* normals and 36 indices.
C12_SingleVoxelMesh ==
    (/\ calc.op = "generate_mesh"
     /\ MeshWidth >= 3
     /\ Cardinality(Solid) = 1
     /\ \A i \in Solid, d \in Directions :
           InBounds(Towards(i, d)) /\ VoxelAt(Towards(i, d)) = 0
     /\ \A c \in DOMAIN calc.map : ~Neighbouring(c, calc.chunk_pos)) =>
        /\ Len(Meshed.vertices) = 24
        /\ Len(Meshed.normals) = 24
        /\ Len(Meshed.indices) = 36

\* C13: a chunk whose voxels are all AIR yields an empty position buffer, an
\* empty normal buffer and an empty index buffer, whatever its width and
\* whatever the registry holds.
C13_EmptyChunkMesh ==
    (calc.op = "generate_mesh" /\ Solid = {}) =>
        /\ Meshed.vertices = <<>>
        /\ Meshed.normals = <<>>
        /\ Meshed.indices = <<>>

\* C13 witness: a chunk of air of width 3 was meshed while the chunk
\* registered at (0,0,0) is another one, of stone.
C13_Witness ==
    /\ calc.op = "generate_mesh"
    /\ MeshWidth = 3
    /\ Solid = {}
    /\ calc.chunk_pos # <<0, 0, 0>>
    /\ <<0, 0, 0>> \in DOMAIN calc.map
    /\ \A i \in 1..27 : calc.chunks[calc.map[<<0, 0, 0>>]][i] = 1
    /\ Meshed.vertices = <<>> /\ Meshed.normals = <<>> /\ Meshed.indices = <<>>

\* C14: for every solid voxel and every direction whose neighbouring position
\* lies outside the local bounds, on the low sides as on the high sides, the
\* mesh has the face, whatever chunks are registered.
C14_BoundaryFaces ==
    calc.op = "generate_mesh" =>
        \A i \in Solid, d \in Directions :
            ~InBounds(Towards(i, d)) => Emitted(i, d)

\* C15: for every solid voxel and every direction whose neighbouring position
\* lies inside the local bounds, the mesh has the face exactly when the
\* neighbouring voxel of the same chunk is not solid, whatever the coordinate
\* of the chunk and whatever other chunks are registered.
C15_OwnVoxelsOnly ==
    calc.op = "generate_mesh" =>
        \A i \in Solid, d \in Directions :
            InBounds(Towards(i, d)) =>
                (Emitted(i, d) <=> VoxelAt(Towards(i, d)) = 0)

\* The number of faces of the mesh.
FaceCount == Len(Meshed.faces)

\* C16: every face adds 4 positions, 4 normals and 6 indices; the 6 indices
\* of a face lie in [b, b + 3], b the number of positions before the face,
\* and the 4 positions and normals at b .. b + 3 are those of that face.  So
\* F faces give 4F positions, 4F normals and 6F indices, each index below the
\* number of positions.
C16_FaceBuffers ==
    calc.op = "generate_mesh" =>
        /\ Len(Meshed.vertices) = 4 * FaceCount
        /\ Len(Meshed.normals) = 4 * FaceCount
        /\ Len(Meshed.indices) = 6 * FaceCount
        /\ Len(Meshed.indices) % 3 = 0
        /\ \A k \in 1..Len(Meshed.indices) :
              Meshed.indices[k] \in 0..(Len(Meshed.vertices) - 1)
        /\ \A f \in 1..FaceCount :
              /\ \A k \in 1..6 :
                    Meshed.indices[6 * (f - 1) + k] \in (4 * (f - 1))..(4 * (f - 1) + 3)
              /\ \A k \in 1..4, a \in 1..3 :
                    /\ Abs(Meshed.vertices[4 * (f - 1) + k][a]
                             - 2 * PositionOf(Meshed.faces[f].i)[a]) = 1
                    /\ Abs(Meshed.normals[4 * (f - 1) + k][1])
                         + Abs(Meshed.normals[4 * (f - 1) + k][2])
                         + Abs(Meshed.normals[4 * (f - 1) + k][3]) = 1

\* C16 witness: a mesh of several faces of two voxels, the later faces
\* indexing positions beyond the first four.
C16_Witness ==
    /\ calc.op = "generate_mesh"
    /\ Cardinality(Solid) = 2
    /\ FaceCount >= 7
    /\ Meshed.indices[6 * FaceCount] >= 4 * (FaceCount - 1)
    /\ Len(Meshed.vertices) = 4 * FaceCount

\* The position that index k of the index buffer refers to.
Corner(k) == Meshed.vertices[Meshed.indices[k] + 1]

\* (b - a) x (c - a)
Cross(a, b, c) ==
    <<(b[2] - a[2]) * (c[3] - a[3]) - (b[3] - a[3]) * (c[2] - a[2]),
      (b[3] - a[3]) * (c[1] - a[1]) - (b[1] - a[1]) * (c[3] - a[3]),
      (b[1] - a[1]) * (c[2] - a[2]) - (b[2] - a[2]) * (c[1] - a[1])>>

\* Whether vector v points in direction d: a positive multiple of it.
PointsTowards(v, d) ==
    /\ v[1] * d[1] + v[2] * d[2] + v[3] * d[3] > 0
    /\ \A k \in 1..3 : d[k] = 0 => v[k] = 0

\* The direction the face named face belongs to: Top +y, Bottom -y, Left -x,
\* Right +x, Front -z, Back +z.
DirectionOf(face) == CHOOSE d \in Directions : FaceTowards(d) = face

\* C19: for every face of every mesh, of each of the six directions, the two
\* triangles of the face, read in index order against the positions, have
\* their cross product pointing in the direction of the face; the four
\* corners lie on that side of the voxel; the two triangles cover the four
\* corners.
C19_OutwardWinding ==
    calc.op = "generate_mesh" =>
        \A f \in 1..FaceCount :
            LET d == DirectionOf(Meshed.faces[f].face)
                p == PositionOf(Meshed.faces[f].i)
                t == 6 * (f - 1)
            IN  /\ PointsTowards(Cross(Corner(t + 1), Corner(t + 2), Corner(t + 3)), d)
                /\ PointsTowards(Cross(Corner(t + 4), Corner(t + 5), Corner(t + 6)), d)
                /\ \A k \in 1..4 :
                      LET v == Meshed.vertices[4 * (f - 1) + k]
                      IN  (v[1] - 2 * p[1]) * d[1] + (v[2] - 2 * p[2]) * d[2]
                            + (v[3] - 2 * p[3]) * d[3] = 1
                /\ {Meshed.indices[t + k] : k \in 1..6} = (4 * (f - 1))..(4 * (f - 1) + 3)
                /\ Cardinality({Meshed.vertices[4 * (f - 1) + k] : k \in 1..4}) = 4

\* C19 witness: a mesh that has a face of each of the six directions, the
\* faces of a second voxel behind those of a first.
C19_Witness ==
    /\ calc.op = "generate_mesh"
    /\ {Meshed.faces[f].face : f \in 1..FaceCount}
          = {"Top", "Bottom", "Left", "Right", "Front", "Back"}
    /\ Cardinality(Solid) = 2
    /\ \A f \in 1..FaceCount :
          PointsTowards(Cross(Corner(6 * f - 5), Corner(6 * f - 4), Corner(6 * f - 3)),
                        DirectionOf(Meshed.faces[f].face))

----------------------------------------------------------------------------
(* Properties of the load and render queues *)

\* The handles in use before a step.
HandlesInUse == InUse(world, commands, voxel_chunk_map, unload, queue)

\* C17: handle_chunk_loading drains the whole load queue within the tick, in
\* FIFO order: after it the load queue is empty, every coordinate that was on
\* it is registered under a handle that was not in use, and the render queue
\* has gained the handles of these coordinates, one each, in the order of the
\* coordinates on the load queue.
C17_LoadingDrainsQueue ==
    [][Runs("handle_chunk_loading") =>
          /\ load' = <<>>
          /\ \A i \in 1..Len(load) :
                /\ load[i] \in DOMAIN voxel_chunk_map'
                /\ voxel_chunk_map'[load[i]] \notin HandlesInUse
                /\ \A j \in 1..Len(load) :
                      voxel_chunk_map'[load[i]] = voxel_chunk_map'[load[j]] => i = j
          /\ queue' = queue \o [i \in 1..Len(load) |-> voxel_chunk_map'[load[i]]]]_vars

\* C17 witness: the loader has just emptied a load queue of several
\* coordinates, appending their handles behind requests that were waiting.
C17_Witness ==
    /\ pc = 5 /\ ~crashed
    /\ load = <<>>
    /\ \E k \in 1..(Len(queue) - 2) :
          /\ \A i \in 1..k : queue[i] \in DOMAIN world
          /\ \A i \in (k + 1)..Len(queue) :
                /\ queue[i] \notin DOMAIN world
                /\ queue[i] \in Handles
                /\ queue[i] \in Reserved(commands)

\* The Update schedule runs every frame: unless a command has panicked, the
\* system whose turn it is runs, or the commands are applied, and the position
\* in the chain moves on.  Every system is enabled when its turn has come, so
\* the steps of Frame that Next allows are the runs of the systems and the
\* application of the commands.
Frame ==
    /\ ~crashed
    /\ pc' = IF pc = Len(Chain) + 1 THEN 1 ELSE pc + 1

\* The application of main(), its one observer moved about by the camera
\* controller, with frames following one another for ever.
SpecFrames == InitInspector /\ [][Next]_vars /\ WF_pc(Frame)

\* The step takes the request at the head of the render queue off it.
HeadTaken == queue # <<>> /\ (queue' = <<>> \/ Head(queue') # Head(queue))

\* C18: every handle put on the render queue is taken off it again, in FIFO
\* order: no request stays at the head of the render queue for ever (the
\* queue is empty again and again, or its head is taken again and again),
\* whatever the observer does, and a request that waited through a tick (its
\* chunk is spawned) is off the queue when the next tick is done.
C18_RenderQueueDrains ==
    /\ []<>(queue = <<>>) \/ []<><<HeadTaken>>_vars
    /\ [](TickDone => \A i \in 1..Len(queue) : queue[i] \notin DOMAIN world)

----------------------------------------------------------------------------
(* VoxelChunk::from_noise *)

\* The value of the noise field at a world position.  The field is
\* Fbm<Simplex> of the noise crate, seeded at start-up: a function of seed and
\* position.  The model puts a function of these in its place that takes
\* values of both signs and tells neighbouring positions apart.
noise_get(seed, x, y, z) == ((x + 2 * y + 4 * z + seed) % 5) - 2

\* TerrainNoise::get_voxel
TerrainNoise_get_voxel(seed, x, y, z) ==
    IF noise_get(seed, x, y, z) < 0 THEN STONE ELSE AIR

\* Mutant: the offset of the chunk is left out.
VoxelWorldPosLocal(chunk_pos, cw, position) == <<position.x, position.y, position.z>>

\* The arguments from_noise passes to get_voxel for the voxel at position:
\* chunk_pos * chunk_width + position, by component (no i32 overflow occurs
\* for the coordinates of the model).
VoxelWorldPos(chunk_pos, cw, position) ==
    <<chunk_pos[1] * cw + position.x,
      chunk_pos[2] * cw + position.y,
      chunk_pos[3] * cw + position.z>>

\* The closure of for_each up to its loop: the voxel for index i.
NoiseVoxel(i, chunk_pos, cw, seed) ==
    LET world_pos == VoxelWorldPos(chunk_pos, cw, from_index(i, cw))
    IN  TerrainNoise_get_voxel(seed, world_pos[1], world_pos[2], world_pos[3])

\* The chunks that are generated.
NoiseChunks == {<<x, x, 0>> : x \in -MaxPos..MaxPos}

\* from_noise is entered: the buffer of range_size voxels of air is in its
\* Mutex (lock = 0: unlocked), and the indices 0..range_size - 1 wait for the
\* workers of the thread pool.  writes counts the writes to each index.
InitNoise ==
    /\ StreamIdle
    /\ \E cw \in 1..MaxNoiseWidth, chunk_pos \in NoiseChunks, seed \in 0..MaxSeed :
          LET range_size == cw * cw * cw
          IN  calc = [op |-> "from_noise", cw |-> cw, chunk_pos |-> chunk_pos,
                      seed |-> seed,
                      voxels |-> [k \in 1..range_size |-> AIR],
                      lock |-> 0,
                      todo |-> 0..(range_size - 1),
                      workers |-> [w \in 1..MaxWorkers |->
                                      [at |-> "idle", i |-> 0, voxel |-> AIR]],
                      writes |-> [i \in 0..(range_size - 1) |-> 0]]

\* into_par_iter().for_each hands index i to worker w, each index of the range
\* to one call of the closure; the worker computes the voxel and reaches the
\* loop.
ClosureStart(w) ==
    /\ calc.op = "from_noise"
    /\ calc.workers[w].at = "idle"
    /\ \E i \in calc.todo :
          calc' = [calc EXCEPT
                     !.todo = @ \ {i},
                     !.workers[w] = [at |-> "try_lock", i |-> i,
                                     voxel |-> NoiseVoxel(i, calc.chunk_pos, calc.cw,
                                                          calc.seed)]]
    /\ UNCHANGED streamVars

\* voxels.try_lock() succeeds; while another worker holds the lock it fails
\* and the loop tries again, which changes nothing.
TryLock(w) ==
    /\ calc.op = "from_noise"
    /\ calc.workers[w].at = "try_lock"
    /\ calc.lock = 0
    /\ calc' = [calc EXCEPT !.lock = w, !.workers[w].at = "locked"]
    /\ UNCHANGED streamVars

\* voxels[i] = voxel
WriteVoxel(w) ==
    /\ calc.op = "from_noise"
    /\ calc.workers[w].at = "locked"
    /\ calc' = [calc EXCEPT
                  !.voxels[calc.workers[w].i + 1] = calc.workers[w].voxel,
                  !.writes[calc.workers[w].i] = @ + 1,
                  !.workers[w].at = "written"]
    /\ UNCHANGED streamVars

\* Mutant: the guard is kept when the loop is left.
UnlockKeepsGuard(w) ==
    /\ calc.op = "from_noise"
    /\ calc.workers[w].at = "written"
    /\ calc' = [calc EXCEPT !.workers[w].at = "idle"]
    /\ UNCHANGED streamVars

\* The guard is dropped at the end of the `if let`, and the loop is left.
Unlock(w) ==
    /\ calc.op = "from_noise"
    /\ calc.workers[w].at = "written"
    /\ calc' = [calc EXCEPT !.lock = 0, !.workers[w].at = "idle"]
    /\ UNCHANGED streamVars

\* for_each returns when every call of the closure has returned;
\* voxels.into_inner().unwrap() is the result.
IntoInner ==
    /\ calc.op = "from_noise"
    /\ calc.todo = {}
    /\ \A w \in 1..MaxWorkers : calc.workers[w].at = "idle"
    /\ calc' = [calc EXCEPT !.op = "from_noise_returned"]
    /\ UNCHANGED streamVars

NextNoise ==
    \/ \E w \in 1..MaxWorkers : ClosureStart(w)
    \/ \E w \in 1..MaxWorkers : TryLock(w)
    \/ \E w \in 1..MaxWorkers : WriteVoxel(w)
    \/ \E w \in 1..MaxWorkers : Unlock(w)
    \/ IntoInner

SpecNoise == InitNoise /\ [][NextNoise]_vars

\* The workers that are in a call of the closure.
Busy == {w \in 1..MaxWorkers : calc.workers[w].at # "idle"}

\* The classification of the world coordinate chunk_coordinate * W +
\* position of index i.
Classified(i) ==
    LET wx == calc.chunk_pos[1] * calc.cw + PositionOf(i)[1]
        wy == calc.chunk_pos[2] * calc.cw + PositionOf(i)[2]
        wz == calc.chunk_pos[3] * calc.cw + PositionOf(i)[3]
    IN  IF ((wx + 2 * wy + 4 * wz + calc.seed) % 5) < 2 THEN 1 ELSE 0

\* C20: under every interleaving of the workers of from_noise no index is
\* written twice and no two workers hold the same index; when from_noise
\* returns, every index of [0, W^3) was written exactly once and the buffer
\* has exactly W^3 voxels, entry i being the classification of the world
\* coordinate chunk_coordinate * W + from_index(i): the result of a
\* sequential loop over the indices.
C20_FromNoiseWritesOnce ==
    calc.op \in {"from_noise", "from_noise_returned"} =>
        /\ \A i \in DOMAIN calc.writes : calc.writes[i] <= 1
        /\ \A w, v \in Busy :
              calc.workers[w].i = calc.workers[v].i => w = v
        /\ \A w \in Busy :
              /\ calc.workers[w].i \notin calc.todo
              /\ calc.writes[calc.workers[w].i]
                    = (IF calc.workers[w].at = "written" THEN 1 ELSE 0)
        /\ Cardinality({w \in Busy : calc.workers[w].at \in {"locked", "written"}}) <= 1
        /\ calc.op = "from_noise_returned" =>
              /\ Len(calc.voxels) = calc.cw * calc.cw * calc.cw
              /\ DOMAIN calc.writes = 0..(calc.cw * calc.cw * calc.cw - 1)
              /\ \A i \in DOMAIN calc.writes :
                    calc.writes[i] = 1 /\ calc.voxels[i + 1] = Classified(i)

\* C20 witness: from_noise has returned a chunk of width 2, away from the
\* origin, that holds stone and air.
C20_Witness ==
    /\ calc.op = "from_noise_returned"
    /\ calc.cw = 2
    /\ calc.chunk_pos # <<0, 0, 0>>
    /\ \E i, j \in 1..8 : calc.voxels[i] = 1 /\ calc.voxels[j] = 0
    /\ \A i \in 0..7 : calc.writes[i] = 1

\* ---------------------------------------------------------------------------
\* from_noise under fair scheduling.

\* The steps of worker w of the thread pool.
Worker(w) == ClosureStart(w) \/ TryLock(w) \/ WriteVoxel(w) \/ Unlock(w)

\* The threads of the pool and the calling thread are scheduled by the
\* operating system: a step that stays possible is taken.  A try_lock that
\* fails changes nothing and is no step of the model.
SpecNoiseFair ==
    /\ InitNoise
    /\ [][NextNoise]_vars
    /\ \A w \in 1..MaxWorkers : WF_vars(Worker(w))
    /\ WF_vars(IntoInner)

RECURSIVE WritesUpTo(_)
\* The number of writes to the indices below n.
WritesUpTo(n) == IF n = 0 THEN 0 ELSE calc.writes[n - 1] + WritesUpTo(n - 1)

\* The workers that spin on try_lock while another worker holds the lock.
Spinning ==
    {w \in 1..MaxWorkers :
        calc.workers[w].at = "try_lock" /\ calc.lock \notin {0, w}}

\* The steps a call of the closure takes from try_lock on: the lock is
\* acquired, the voxel is written, the call finishes.
CallAdvances(w) ==
    LET at == calc.workers[w].at
        to == calc'.workers[w].at
    IN  /\ at = "try_lock" => to \in {"try_lock", "locked"}
        /\ at = "locked" => to \in {"locked", "written"}
        /\ at = "written" => to \in {"written", "idle"}

\* C21: from_noise terminates under fair scheduling of the workers: from
\* some moment on it has returned and no worker is in a call of the closure,
\* a worker leaves try_lock only with the lock, the locked section only with
\* its voxel written, and when from_noise returns exactly W^3 voxels were
\* written and no index is left.
C21_FromNoiseTerminates ==
    /\ <>[](calc.op = "from_noise_returned" /\ Busy = {})
    /\ [][\A w \in 1..MaxWorkers : CallAdvances(w)]_vars
    /\ [](calc.op = "from_noise_returned" =>
             /\ WritesUpTo(calc.cw * calc.cw * calc.cw) = calc.cw * calc.cw * calc.cw
             /\ calc.todo = {})

\* C21 witness: in a chunk of width 2 a worker spins on try_lock while the
\* other worker holds the lock, and indices are still to be handed out.
C21_Witness ==
    /\ calc.op = "from_noise"
    /\ calc.cw = 2
    /\ Spinning # {}
    /\ calc.todo # {}

\* ---------------------------------------------------------------------------
\* World coordinates to chunk coordinates.

\* World coordinates are f32; the model counts them in halves, h standing for
\* the f32 h / 2, so that coordinates between the integers occur.
\* `as i32` drops the fraction of the f32 toward zero (and saturates, which
\* from_world_pos models).
TruncF32(h) == TruncDiv(h, 2)

\* The values of a component of a world position, in halves, for chunk width
\* cw: the multiples of the chunk width up to MaxQuot chunks away on both
\* sides, and the positions just beside them and half a chunk beside them.
WorldSamples(cw) ==
    {q * 2 * cw + r : q \in -MaxQuot..MaxQuot,
                      r \in {-(2 * cw - 1), -cw, -1, 0, 1, cw, 2 * cw - 1}}

InitWorld ==
    /\ StreamIdle
    /\ \E cw \in 1..MaxWidth :
          \E x, y, z \in WorldSamples(cw) :
             calc = [op |-> "world_pos", cw |-> cw, world_pos |-> <<x, y, z>>]

\* VoxelChunkPosition::from_world_pos of a world position.
FromWorldPos ==
    /\ calc.op = "world_pos"
    /\ calc' = [op |-> "from_world_pos", cw |-> calc.cw, world_pos |-> calc.world_pos,
                chunk_pos |-> from_world_pos(<<TruncF32(calc.world_pos[1]),
                                               TruncF32(calc.world_pos[2]),
                                               TruncF32(calc.world_pos[3])>>,
                                             calc.cw)]
    /\ UNCHANGED streamVars

SpecWorld == InitWorld /\ [][FromWorldPos]_vars

\* C22: from_world_pos divides with truncation toward zero, not with
\* flooring.  For chunk width W and each component p of the world position
\* (h = 2p, in halves): -W < p < W gives chunk component 0; p <= -W gives
\* -(|p| div W); p >= W gives p div W; and for a negative p that is no
\* multiple of W the result is one above floor(p / W).
C22_TruncatingDivision ==
    calc.op = "from_world_pos" =>
        \A k \in 1..3 :
            LET h == calc.world_pos[k]
                W2 == 2 * calc.cw
                c == calc.chunk_pos[k]
            IN  /\ (-W2 < h /\ h < W2) => c = 0
                /\ h <= -W2 => c = -((-h) \div W2)
                /\ h >= W2 => c = h \div W2
                /\ (h < 0 /\ h % W2 # 0) => c = (h \div W2) + 1
                /\ (h >= 0 \/ h % W2 = 0) => c = h \div W2

\* C22 witness: with chunk width 16 the world coordinates -16.5, -0.5 and
\* 16.5 were mapped, to -1 (the floor is -2), 0 (the floor is -1) and 1.
C22_Witness ==
    /\ calc.op = "from_world_pos"
    /\ calc.cw = 16
    /\ calc.world_pos = <<-33, -1, 33>>
    /\ calc.chunk_pos = <<-1, 0, 1>>

\* ---------------------------------------------------------------------------
\* Normals of the faces.

\* C23: for every face of every mesh, found exposed in direction d, the four
\* normals stored for its four vertices are the unit vector d: the side the
\* vertices of the face lie on and its triangles wind toward.
C23_NormalsAlongDirection ==
    calc.op = "generate_mesh" =>
        \A f \in 1..FaceCount :
            \A k \in 1..4 :
                Meshed.normals[4 * (f - 1) + k] = DirectionOf(Meshed.faces[f].face)

\* ---------------------------------------------------------------------------
\* Properties of the tick as a whole

\* C24: through every sequence of ticks and moves of the observers the load
\* queue holds no coordinate twice, and when handle_chunk_loading is about to
\* run it holds no registered coordinate; so no insert_chunk of
\* handle_chunk_loading fails: a run queues one spawn for every coordinate of
\* the load queue and no despawn, registers each of them and empties the
\* queue.
C24_NoInsertConflict ==
    /\ [](\A i, j \in 1..Len(load) : load[i] = load[j] => i = j)
    /\ [](AtSystem("handle_chunk_loading") =>
             \A i \in 1..Len(load) : load[i] \notin Registered)
    /\ [][Runs("handle_chunk_loading") =>
             /\ Len(Queued) = Len(load)
             /\ \A i \in 1..Len(load) :
                   /\ Queued[i].op = "spawn"
                   /\ Queued[i].chunk_pos = load[i]
                   /\ load[i] \notin Registered
                   /\ voxel_chunk_map'[load[i]] = Queued[i].entity
             /\ Len(load') = 0]_vars

\* C24 witness: two observers, one of them moved since the last tick;
\* handle_chunk_loading has just run on a load queue of coordinates that were
\* not registered while other coordinates were, and the registry now holds
\* both.
C24_Witness ==
    /\ ~crashed /\ pc = 5
    /\ Len(observers) = 2
    /\ load = <<>>
    /\ tick_start_map # Empty
    /\ \E c \in Registered : c \in DOMAIN tick_start_map
    /\ Cardinality(Registered \ DOMAIN tick_start_map) >= 2
    /\ Cardinality(Reserved(commands)) = Cardinality(Registered \ DOMAIN tick_start_map)

\* C25: at the end of every tick every registered coordinate lies within
\* Euclidean distance R + M of the origin chunk of at least one observer, with
\* the R, M and position that observer has in the tick.  With no observer the
\* registry is empty at the end of the tick: the scan, run on any registry
\* the ticks produce while the query finds no observer, puts every registered
\* chunk on the unload queue, and the unloader then removes them all.
C25_RegisteredNearObserver ==
    /\ TickDone => BeyondAll = {}
    /\ (TickDone /\ Len(observers) = 0) => Registered = {}
    /\ AtSystem("unload_chunks_out_of_render_distance") =>
          LET scanned == unload_chunks_out_of_render_distance(unload, voxel_chunk_map, <<>>)
              unloaded == handle_chunk_unloading(scanned, voxel_chunk_map, commands, world)
          IN  /\ Range(SubSeq(scanned, Len(unload) + 1, Len(scanned)))
                    = {<<c, voxel_chunk_map[c]>> : c \in Registered}
              /\ unloaded.map = Empty

\* C25 witness: a tick is done in which chunks were unloaded; of the chunks
\* that stay registered one lies beyond R of every observer, in the margin.
C25_Witness ==
    /\ TickDone
    /\ Len(observers) >= 1
    /\ ~(DOMAIN tick_start_map \subseteq Registered)
    /\ \E c \in Registered :
          \A i \in 1..Len(observers) : DistSq(c, i) > observers[i].val * observers[i].val

\* The tick boundary: the commands of a tick are applied, the next tick has
\* not begun.
TickBoundary == pc = 1

\* C26: at every tick boundary the registry and the existing chunk entities
\* agree: no two coordinates map to the same handle; every registry value is
\* the handle of an existing chunk whose stored coordinate is its key; every
\* existing chunk entity is the value of exactly one registry entry.
C26_RegistryMatchesEntities ==
    TickBoundary =>
        /\ \A c, d \in Registered : voxel_chunk_map[c] = voxel_chunk_map[d] => c = d
        /\ \A c \in Registered :
              /\ voxel_chunk_map[c] \in DOMAIN world
              /\ world[voxel_chunk_map[c]].chunk_pos = c
        /\ \A e \in DOMAIN world :
              Cardinality({c \in Registered : voxel_chunk_map[c] = e}) = 1

\* C26 witness: a tick boundary after a tick in which the loader discarded a
\* load: the coordinate it refused, a registered one, is still at the head of
\* the load queue, in front of unregistered coordinates the same tick queued,
\* and several chunks exist.
C26_Witness ==
    /\ TickBoundary /\ ~crashed
    /\ Len(load) >= 2
    /\ load[1] \in Registered
    /\ \A i \in 2..Len(load) : load[i] \notin Registered
    /\ Cardinality(DOMAIN world) >= 2
    /\ Cardinality(Registered) = Cardinality(DOMAIN world)

====
